---- MODULE Spec2Model ----
(***************************************************************************)
(* Model of minesweeper.py: the Minesweeper board (ground truth), the      *)
(* Sentence class and the MinesweeperAI knowledge base.                    *)
(*                                                                         *)
(* A cell is a pair <<i, j>>.  A sentence is a record [cells, count].      *)
(* The knowledge base is the sequence `knowledge` (a Python list) plus the *)
(* sets `mines`, `safes` and `moves_made`.  add_knowledge is followed      *)
(* statement by statement through `pc`; no other method can run while a    *)
(* call of add_knowledge is in progress (the program is single-threaded).  *)
(***************************************************************************)
EXTENDS Integers, FiniteSets, Sequences, TLC

\* Bounds of the model.
MaxHeight == 3
MaxWidth == 3
MaxMines == 2
MaxObs == 3
MaxObsAny == 2
MaxCount == 3
MaxCells == 4

VARIABLES height, width, board, moves_made, mines, safes, knowledge,
          pc, history, op, ret

vars == <<height, width, board, moves_made, mines, safes, knowledge,
          pc, history, op, ret>>

\* Python's None, as returned by make_safe_move / make_random_move.
None == <<>>

\* The cells of the board: board[i][j] for i in range(height), j in range(width).
GridCells == {<<i, j>> : i \in 0 .. (height - 1), j \in 0 .. (width - 1)}

\* The eight (di, dj) offsets around a cell, the cell itself excluded.
Offsets == {<<di, dj>> : di \in -1 .. 1, dj \in -1 .. 1} \ {<<0, 0>>}

Around(cell) == {<<cell[1] + d[1], cell[2] + d[2]>> : d \in Offsets}

\* Minesweeper.nearby_mines: mines within one row and column, in bounds.
nearby_mines(cell) ==
    Cardinality({c \in Around(cell) :
                    /\ 0 <= c[1] /\ c[1] < height
                    /\ 0 <= c[2] /\ c[2] < width
                    /\ c \in board})

(***************************************************************************)
(* class Sentence                                                          *)
(***************************************************************************)
Sentence(cells, count) == [cells |-> cells, count |-> count]

\* A slip that would compare the count with ">=" instead of "==".
known_minesAtLeast(s) ==
    IF s.count >= Cardinality(s.cells) /\ Cardinality(s.cells) > 0
    THEN s.cells
    ELSE {}

known_mines(s) ==
    IF Cardinality(s.cells) = s.count /\ Cardinality(s.cells) > 0
    THEN s.cells
    ELSE {}

known_safes(s) ==
    IF s.count = 0 THEN s.cells ELSE {}

Sentence_mark_mine(s, cell) ==
    IF cell \in s.cells
    THEN [cells |-> s.cells \ {cell}, count |-> s.count - 1]
    ELSE s

\* A slip that would decrement the count as mark_mine does.
Sentence_mark_safeDec(s, cell) ==
    IF cell \in s.cells
    THEN [cells |-> s.cells \ {cell}, count |-> s.count - 1]
    ELSE s

Sentence_mark_safe(s, cell) ==
    IF cell \in s.cells
    THEN [cells |-> s.cells \ {cell}, count |-> s.count]
    ELSE s

(***************************************************************************)
(* class MinesweeperAI.  The methods are operators on the record           *)
(* [mines, safes, knowledge] (the fields they read and write).             *)
(***************************************************************************)
Self == [mines |-> mines, safes |-> safes, knowledge |-> knowledge]

mark_mine(kb, cell) ==
    [kb EXCEPT !.mines = @ \cup {cell},
               !.knowledge = [k \in DOMAIN @ |-> Sentence_mark_mine(@[k], cell)]]

\* A slip that would add the cell to safes without telling the sentences.
mark_safeLocal(kb, cell) == [kb EXCEPT !.safes = @ \cup {cell}]

mark_safe(kb, cell) ==
    [kb EXCEPT !.safes = @ \cup {cell},
               !.knowledge = [k \in DOMAIN @ |-> Sentence_mark_safe(@[k], cell)]]

\* "for safe in newSafes: self.mark_safe(safe)"
RECURSIVE MarkSafes(_, _)
MarkSafes(kb, S) ==
    IF S = {} THEN kb
    ELSE LET c == CHOOSE x \in S : TRUE
         IN  MarkSafes(mark_safe(kb, c), S \ {c})

\* "for mine in newMines: self.mark_mine(mine)"
RECURSIVE MarkMines(_, _)
MarkMines(kb, S) ==
    IF S = {} THEN kb
    ELSE LET c == CHOOSE x \in S : TRUE
         IN  MarkMines(mark_mine(kb, c), S \ {c})

\* A slip that would keep the emptied sentences.
DropEmptyKeep(K) == K

\* The list comprehension that ends update_knowledge.
DropEmpty(K) == SelectSeq(K, LAMBDA s : Cardinality(s.cells) > 0)

(***************************************************************************)
(* update_knowledge.  The body of "while change" sets change = False and   *)
(* contains only the scan and the computation of newSafes; the marking     *)
(* code is indented outside the loop, so the loop body runs exactly once   *)
(* and both `safes` and `mines` are those of that single scan.             *)
(***************************************************************************)
update_knowledge(kb) ==
    LET scanSafes == UNION {known_safes(kb.knowledge[k]) : k \in DOMAIN kb.knowledge}
        scanMines == UNION {known_mines(kb.knowledge[k]) : k \in DOMAIN kb.knowledge}
        newSafes  == scanSafes \ kb.safes
        kb1       == MarkSafes(kb, newSafes)
        newMines  == scanMines \ kb1.mines
        kb2       == MarkMines(kb1, newMines)
    IN  [kb2 EXCEPT !.knowledge = DropEmpty(@)]

(***************************************************************************)
(* addNewStement.  A neighbour in self.safes is skipped; one in self.mines *)
(* is skipped and decrements count; the others are kept when               *)
(* 0 <= i+di < self.width and 0 <= j+dj < self.height.                     *)
(***************************************************************************)
InAIBounds(c) ==
    /\ c[1] >= 0 /\ c[1] < width
    /\ c[2] >= 0 /\ c[2] < height

addNewStement(kb, cell, count) ==
    LET around   == Around(cell)
        hazards  == {c \in around : c \notin kb.safes /\ c \in kb.mines}
        cellsNew == {c \in around : c \notin kb.safes /\ c \notin kb.mines
                                    /\ InAIBounds(c)}
    IN  [kb EXCEPT !.knowledge =
            Append(@, Sentence(cellsNew, count - Cardinality(hazards)))]

(***************************************************************************)
(* checkNewStement.  Pairs (i, j) are visited in the order of the two      *)
(* nested enumerate loops.  The "if difSentenceCount >= 0" branch rebuilds *)
(* the same sentence, so new_sentence is the difference in both cases.     *)
(***************************************************************************)
\* A slip that would skip the test for an equal sentence.
InSeqNever(s, K) == FALSE

InSeq(s, K) == \E k \in DOMAIN K : K[k] = s

RECURSIVE CheckPairs(_, _, _)
CheckPairs(K, p, new_statements) ==
    LET n == Len(K)
    IN  IF p >= n * n THEN new_statements
        ELSE LET i == (p \div n) + 1
                 j == (p % n) + 1
                 sentence  == K[i]
                 sentenceC == K[j]
                 difSentenceCells == sentenceC.cells \ sentence.cells
                 difSentenceCount == sentenceC.count - sentence.count
                 new_sentence ==
                     IF difSentenceCount >= 0
                     THEN Sentence(difSentenceCells, difSentenceCount)
                     ELSE Sentence(difSentenceCells, difSentenceCount)
             IN  IF /\ i # j
                    /\ sentence.cells \subseteq sentenceC.cells
                    /\ ~InSeq(new_sentence, new_statements)
                    /\ ~InSeq(new_sentence, K)
                 THEN CheckPairs(K, p + 1, Append(new_statements, new_sentence))
                 ELSE CheckPairs(K, p + 1, new_statements)

\* A slip that would drop the synthesized sentences.
checkNewStementNone(kb) == kb

checkNewStement(kb) ==
    [kb EXCEPT !.knowledge = @ \o CheckPairs(@, 0, <<>>)]

\* A slip that would replace the set of moves instead of adding to it.
RecordMoveReset(mm, cell) == {cell}

\* "self.moves_made.add(cell)"
RecordMove(mm, cell) == mm \cup {cell}

\* A slip that would forget to exclude the moves already made.
SafeMovesPlayed == safes \ mines

\* make_safe_move: "move = self.safes - self.moves_made - self.mines"
SafeMoves == (safes \ moves_made) \ mines

\* make_random_move: "for i in range(0,self.width): for j in range(0,self.height)"
allcells == {<<i, j>> : i \in 0 .. (width - 1), j \in 0 .. (height - 1)}

RandomMoves == (allcells \ mines) \ moves_made

(***************************************************************************)
(* Initial states: Minesweeper.__init__ places the mines, and              *)
(* MinesweeperAI.__init__ starts with empty knowledge.                     *)
(***************************************************************************)
InitAI ==
    /\ moves_made = {}
    /\ mines = {}
    /\ safes = {}
    /\ knowledge = <<>>
    /\ pc = "idle"
    /\ history = <<>>
    /\ op = "init"
    /\ ret = None

Init ==
    /\ height \in 1 .. MaxHeight
    /\ width \in 1 .. MaxWidth
    /\ board \in {b \in SUBSET GridCells : Cardinality(b) <= MaxMines}
    /\ InitAI

\* No ground truth: the counts given to add_knowledge are arbitrary.
InitAny ==
    /\ height \in 1 .. MaxHeight
    /\ width \in 1 .. MaxWidth
    /\ board = {}
    /\ InitAI

(***************************************************************************)
(* Actions                                                                 *)
(***************************************************************************)
Store(kb) ==
    /\ mines' = kb.mines
    /\ safes' = kb.safes
    /\ knowledge' = kb.knowledge

\* A slip that would record the move without marking the cell safe.
AddKnowledgeNoSafe(cell, count) ==
    /\ pc = "idle"
    /\ moves_made' = RecordMove(moves_made, cell)
    /\ history' = Append(history, <<cell, count>>)
    /\ pc' = "addNewStement"
    /\ op' = "add_knowledge"
    /\ ret' = None
    /\ UNCHANGED <<height, width, board, mines, safes, knowledge>>

\* add_knowledge, steps 1) and 2).
AddKnowledge(cell, count) ==
    /\ pc = "idle"
    /\ moves_made' = RecordMove(moves_made, cell)
    /\ Store(mark_safe(Self, cell))
    /\ history' = Append(history, <<cell, count>>)
    /\ pc' = "addNewStement"
    /\ op' = "add_knowledge"
    /\ ret' = None
    /\ UNCHANGED <<height, width, board>>

\* The board reports the true count of a cell that is not a mine.
Observe ==
    /\ Len(history) < MaxObs
    /\ \E cell \in GridCells \ board : AddKnowledge(cell, nearby_mines(cell))

\* add_knowledge called with any count.
ObserveAny ==
    /\ Len(history) < MaxObsAny
    /\ \E cell \in GridCells : \E count \in 0 .. MaxCount : AddKnowledge(cell, count)

\* add_knowledge, step 3).
StepAddNewStement ==
    /\ pc = "addNewStement"
    /\ LET last == history[Len(history)]
       IN  Store(addNewStement(Self, last[1], last[2]))
    /\ pc' = "update1"
    /\ UNCHANGED <<height, width, board, moves_made, history, op, ret>>

\* A slip that would never leave update_knowledge.
StepUpdateKnowledgeAgain ==
    /\ pc \in {"update1", "update2"}
    /\ Store(update_knowledge(Self))
    /\ UNCHANGED <<height, width, board, moves_made, pc, history, op, ret>>

\* add_knowledge, step 4) and the second call in step 5).
StepUpdateKnowledge ==
    /\ pc \in {"update1", "update2"}
    /\ Store(update_knowledge(Self))
    /\ pc' = IF pc = "update1" THEN "checkNewStement" ELSE "idle"
    /\ UNCHANGED <<height, width, board, moves_made, history, op, ret>>

\* add_knowledge, step 5).
StepCheckNewStement ==
    /\ pc = "checkNewStement"
    /\ Store(checkNewStement(Self))
    /\ pc' = "update2"
    /\ UNCHANGED <<height, width, board, moves_made, history, op, ret>>

\* next(iter(move)) yields some element of the set.
MakeSafeMove ==
    /\ pc = "idle"
    /\ op' = "make_safe_move"
    /\ IF Cardinality(SafeMoves) > 0
       THEN ret' \in SafeMoves
       ELSE ret' = None
    /\ UNCHANGED <<height, width, board, moves_made, mines, safes, knowledge,
                   pc, history>>

MakeRandomMove ==
    /\ pc = "idle"
    /\ op' = "make_random_move"
    /\ IF Cardinality(RandomMoves) > 0
       THEN ret' \in RandomMoves
       ELSE ret' = None
    /\ UNCHANGED <<height, width, board, moves_made, mines, safes, knowledge,
                   pc, history>>

Steps ==
    \/ StepAddNewStement
    \/ StepUpdateKnowledge
    \/ StepCheckNewStement
    \/ MakeSafeMove
    \/ MakeRandomMove

Next == Observe \/ Steps

NextAny == ObserveAny \/ Steps

Spec == Init /\ [][Next]_vars

SpecAny == InitAny /\ [][NextAny]_vars

\* add_knowledge is synchronous: once called, each of its statements runs.
Fairness ==
    /\ WF_vars(StepAddNewStement)
    /\ WF_vars(StepUpdateKnowledge)
    /\ WF_vars(StepCheckNewStement)

FairSpecAny == InitAny /\ [][NextAny]_vars /\ Fairness

(***************************************************************************)
(* class Sentence on its own.  One sentence, knowledge[1], is built by     *)
(* Sentence.__init__ from any set of at most MaxCells cells and any count  *)
(* in 0 .. MaxCells; its four methods are then called in any order.  `ret` *)
(* is the value returned by known_mines / known_safes, and `history` holds *)
(* the argument of the last mark_mine / mark_safe call.                    *)
(***************************************************************************)
InitSentence ==
    /\ height \in 1 .. MaxHeight
    /\ width \in 1 .. MaxWidth
    /\ board = {}
    /\ moves_made = {}
    /\ mines = {}
    /\ safes = {}
    /\ \E cells \in {S \in SUBSET GridCells : Cardinality(S) <= MaxCells} :
           \E count \in 0 .. MaxCells :
               knowledge = <<Sentence(cells, count)>>
    /\ pc = "idle"
    /\ history = <<>>
    /\ op = "init"
    /\ ret = None

KnownMines ==
    /\ op' = "known_mines"
    /\ ret' = known_mines(knowledge[1])
    /\ UNCHANGED <<height, width, board, moves_made, mines, safes, knowledge,
                   pc, history>>

KnownSafes ==
    /\ op' = "known_safes"
    /\ ret' = known_safes(knowledge[1])
    /\ UNCHANGED <<height, width, board, moves_made, mines, safes, knowledge,
                   pc, history>>

SentenceMarkMine ==
    /\ \E cell \in GridCells :
           /\ knowledge' = <<Sentence_mark_mine(knowledge[1], cell)>>
           /\ history' = <<cell>>
    /\ op' = "Sentence.mark_mine"
    /\ ret' = None
    /\ UNCHANGED <<height, width, board, moves_made, mines, safes, pc>>

SentenceMarkSafe ==
    /\ \E cell \in GridCells :
           /\ knowledge' = <<Sentence_mark_safe(knowledge[1], cell)>>
           /\ history' = <<cell>>
    /\ op' = "Sentence.mark_safe"
    /\ ret' = None
    /\ UNCHANGED <<height, width, board, moves_made, mines, safes, pc>>

NextSentence ==
    \/ KnownMines
    \/ KnownSafes
    \/ SentenceMarkMine
    \/ SentenceMarkSafe

SpecSentence == InitSentence /\ [][NextSentence]_vars

TypeOK ==
    /\ height \in 1 .. MaxHeight
    /\ width \in 1 .. MaxWidth
    /\ pc \in {"idle", "addNewStement", "update1", "checkNewStement", "update2"}
    /\ op \in {"init", "add_knowledge", "make_safe_move", "make_random_move",
              "known_mines", "known_safes", "Sentence.mark_mine",
              "Sentence.mark_safe"}
    /\ \A k \in DOMAIN knowledge : knowledge[k].count \in Int

(***************************************************************************)
(* Properties                                                              *)
(***************************************************************************)
\* add_knowledge has been called and has returned.
Returned == pc = "idle" /\ Len(history) > 0

\* C1: with truthful observations, every cell of safes is not a mine of the
\* board and every cell of mines is a mine of the board.
C1_Soundness ==
    /\ safes \cap board = {}
    /\ mines \subseteq board

\* C2: when add_knowledge has returned, no sentence of the knowledge base
\* still yields a conclusion: none has count 0 with cells left, and none has
\* count equal to its (positive) number of cells.
C2_Quiescence ==
    Returned =>
        \A k \in DOMAIN knowledge :
            /\ ~(knowledge[k].count = 0 /\ knowledge[k].cells # {})
            /\ ~(knowledge[k].count = Cardinality(knowledge[k].cells)
                 /\ Cardinality(knowledge[k].cells) > 0)

\* C3: for any counts, the sentences that checkNewStement appends to the
\* knowledge base all have a count that is not negative.
C3_NoNegativeInserted ==
    [][pc = "checkNewStement" =>
          \A k \in (Len(knowledge) + 1) .. Len(knowledge') :
              knowledge'[k].count >= 0]_vars

\* C4: with truthful observations, every sentence of the knowledge base has
\* 0 <= count <= |cells|, at every point of add_knowledge.
C4_CountBounds ==
    \A k \in DOMAIN knowledge :
        /\ 0 <= knowledge[k].count
        /\ knowledge[k].count <= Cardinality(knowledge[k].cells)

\* C5: the sentence appended by addNewStement for (cell, count) has as cells
\* the neighbours of cell inside the grid (row < height, column < width) that
\* are neither in safes nor in mines, and as count the given count minus the
\* number of neighbours in mines.
C5_NewConstraint ==
    pc = "update1" =>
        LET cell  == history[Len(history)][1]
            count == history[Len(history)][2]
        IN  knowledge[Len(knowledge)] =
                [cells |-> {c \in Around(cell) \cap GridCells :
                               c \notin safes /\ c \notin mines},
                 count |-> count - Cardinality(Around(cell) \cap mines)]

\* C6: make_safe_move returns a member of safes - moves_made - mines when
\* that set is not empty, None exactly when it is empty, and leaves safes,
\* mines, moves_made and knowledge unchanged.
C6_SafeMove ==
    [][op' = "make_safe_move" =>
          /\ UNCHANGED <<safes, mines, moves_made, knowledge>>
          /\ ((safes \ moves_made) \ mines # {}
                 => ret' \in (safes \ moves_made) \ mines)
          /\ (ret' = None <=> (safes \ moves_made) \ mines = {})]_vars

C6_Witness ==
    /\ op = "make_safe_move"
    /\ ret # None
    /\ moves_made # {}
    /\ mines # {}

\* C7: make_random_move returns a cell of the grid (row < height,
\* column < width) that is neither in mines nor in moves_made, and None
\* exactly when there is no such cell.
C7_RandomMove ==
    op = "make_random_move" =>
        /\ (ret # None => ret \in (GridCells \ mines) \ moves_made)
        /\ (ret = None <=> (GridCells \ mines) \ moves_made = {})

\* C8: for any sequence of add_knowledge calls, mines and safes are disjoint.
C8_Disjoint == mines \cap safes = {}

\* C9: across every step, mines, safes and moves_made only grow.
C9_Monotonic ==
    [][/\ mines \subseteq mines'
       /\ safes \subseteq safes'
       /\ moves_made \subseteq moves_made']_vars

C9_Witness ==
    /\ pc = "idle"
    /\ Len(history) >= 2
    /\ Cardinality(moves_made) >= 2
    /\ mines # {}
    /\ Cardinality(safes) > Cardinality(moves_made)

\* The 3x3 scenario: one mine, in a corner; the centre is observed, then an
\* edge cell next to that corner.
Center == <<1, 1>>

Corners == {<<0, 0>>, <<0, 2>>, <<2, 0>>, <<2, 2>>}

Edges == {<<0, 1>>, <<1, 0>>, <<1, 2>>, <<2, 1>>}

Scenario(corner, e) ==
    /\ height = 3
    /\ width = 3
    /\ board = {corner}
    /\ pc = "idle"
    /\ history = <<<<Center, 1>>, <<e, 1>>>>

\* C10 as stated: after the two observations the corner is in mines, every
\* other cell is in safes, and make_safe_move does not return the corner.
C10_Original ==
    \A corner \in Corners : \A e \in Edges \cap Around(corner) :
        Scenario(corner, e) =>
            /\ corner \in mines
            /\ GridCells \ {corner} \subseteq safes
            /\ (op = "make_safe_move" => ret # corner)

\* C10 as amended: after the two observations mines is empty, safes is the
\* centre, the edge cell and the three cells not next to the edge cell, and
\* make_safe_move does not return the corner.
C10_Scenario ==
    \A corner \in Corners : \A e \in Edges \cap Around(corner) :
        Scenario(corner, e) =>
            /\ mines = {}
            /\ safes = {Center} \cup (GridCells \ Around(e))
            /\ (op = "make_safe_move" => ret # corner)

C10_Witness ==
    \E corner \in Corners : \E e \in Edges \cap Around(corner) :
        /\ Scenario(corner, e)
        /\ op = "make_safe_move"
        /\ ret # None

\* C11: known_safes returns the cells when count is 0 and the empty set
\* otherwise; known_mines returns the cells when count equals the number of
\* cells and that number is positive, and the empty set otherwise.
C11_TrivialConclusions ==
    LET s == knowledge[1]
    IN  /\ op = "known_safes" =>
               ret = (IF s.count = 0 THEN s.cells ELSE {})
        /\ op = "known_mines" =>
               ret = (IF s.count = Cardinality(s.cells) /\ s.cells # {}
                      THEN s.cells ELSE {})

C11_Witness ==
    /\ op = "known_mines"
    /\ ret = knowledge[1].cells
    /\ Cardinality(ret) >= 2

\* C12: Sentence.mark_mine(c) removes c and decrements count by one when c is
\* a member; Sentence.mark_safe(c) removes c and keeps count when c is a
\* member; when c is not a member, cells and count are unchanged.
C12_CellRemoval ==
    [][/\ op' = "Sentence.mark_mine" =>
             LET s == knowledge[1]
                 c == history'[1]
             IN  knowledge'[1] =
                     (IF c \in s.cells
                      THEN [cells |-> s.cells \ {c}, count |-> s.count - 1]
                      ELSE s)
       /\ op' = "Sentence.mark_safe" =>
             LET s == knowledge[1]
                 c == history'[1]
             IN  knowledge'[1] =
                     (IF c \in s.cells
                      THEN [cells |-> s.cells \ {c}, count |-> s.count]
                      ELSE s)]_vars

C12_Witness ==
    /\ op = "Sentence.mark_mine"
    /\ history[1] \notin knowledge[1].cells
    /\ knowledge[1].count < 0

\* C13: running update_knowledge again right after it has returned changes
\* none of mines, safes and knowledge.
C13_Idempotent ==
    (pc = "checkNewStement" \/ Returned) => update_knowledge(Self) = Self

\* C16: when add_knowledge has returned, every pair of sentences at distinct
\* positions with A.cells a subset of B.cells has a difference that is empty
\* or equal to a sentence of the knowledge base.
C16_SubtractionClosed ==
    Returned =>
        \A i \in DOMAIN knowledge : \A j \in DOMAIN knowledge :
            (i # j /\ knowledge[i].cells \subseteq knowledge[j].cells) =>
                \/ knowledge[j].cells \ knowledge[i].cells = {}
                \/ \E k \in DOMAIN knowledge :
                       knowledge[k] =
                           [cells |-> knowledge[j].cells \ knowledge[i].cells,
                            count |-> knowledge[j].count - knowledge[i].count]

\* C17: when add_knowledge has returned, no sentence of the knowledge base
\* contains a cell of safes or of mines.
C17_Broadcast ==
    Returned =>
        \A k \in DOMAIN knowledge :
            knowledge[k].cells \cap (safes \cup mines) = {}

C17_Witness ==
    /\ Returned
    /\ mines # {}
    /\ safes \ moves_made # {}
    /\ knowledge # <<>>

\* C18: when add_knowledge has returned, every sentence of the knowledge
\* base has at least one cell.
C18_NoEmptySentence ==
    Returned => \A k \in DOMAIN knowledge : knowledge[k].cells # {}

C18_Witness ==
    /\ Returned
    /\ knowledge = <<>>
    /\ mines # {}

\* C19: moves_made is a subset of safes; when add_knowledge(cell, count) has
\* returned, cell is in moves_made and in safes and in no sentence.
C19_ProbedSafe ==
    /\ moves_made \subseteq safes
    /\ Returned =>
           LET cell == history[Len(history)][1]
           IN  /\ cell \in moves_made
               /\ cell \in safes
               /\ \A k \in DOMAIN knowledge : cell \notin knowledge[k].cells

C19_Witness ==
    /\ pc = "idle"
    /\ op = "add_knowledge"
    /\ Len(history) >= 2
    /\ knowledge # <<>>

\* C14: checkNewStement keeps the sentences it found and appends sentences
\* such that: for every pair A, B at distinct positions with A.cells a
\* subset of B.cells the base then contains (B.cells - A.cells,
\* B.count - A.count); every appended sentence is such a difference, differs
\* from every sentence found and from every other appended sentence.  With
\* {(0,0),(0,1)} = 1 and {(0,0),(0,1),(0,2)} = 1 it appends {(0,2)} = 0, and
\* the next update_knowledge puts (0,2) into safes.
C14_Subtraction ==
    [][/\ pc = "checkNewStement" =>
             LET K  == knowledge
                 K2 == knowledge'
                 n  == Len(knowledge)
                 Pair(i, j) == i # j /\ K[i].cells \subseteq K[j].cells
                 Diff(i, j) == [cells |-> K[j].cells \ K[i].cells,
                                count |-> K[j].count - K[i].count]
             IN  /\ Len(K2) >= n
                 /\ \A m \in 1 .. n : K2[m] = K[m]
                 /\ \A i \in 1 .. n : \A j \in 1 .. n :
                        Pair(i, j) => \E k \in 1 .. Len(K2) : K2[k] = Diff(i, j)
                 /\ \A k \in (n + 1) .. Len(K2) :
                        /\ \E i \in 1 .. n : \E j \in 1 .. n :
                               Pair(i, j) /\ K2[k] = Diff(i, j)
                        /\ \A m \in 1 .. Len(K2) : m # k => K2[m] # K2[k]
       /\ (/\ pc = "update2"
           /\ knowledge = <<[cells |-> {<<0, 0>>, <<0, 1>>}, count |-> 1],
                            [cells |-> {<<0, 0>>, <<0, 1>>, <<0, 2>>}, count |-> 1],
                            [cells |-> {<<0, 2>>}, count |-> 0]>>)
              => <<0, 2>> \in safes' \ safes]_vars

C14_Witness ==
    /\ pc = "update2"
    /\ knowledge = <<[cells |-> {<<0, 0>>, <<0, 1>>}, count |-> 1],
                     [cells |-> {<<0, 0>>, <<0, 1>>, <<0, 2>>}, count |-> 1],
                     [cells |-> {<<0, 2>>}, count |-> 0]>>
    /\ <<0, 2>> \notin safes

\* C15: every call of add_knowledge returns.
C15_Terminates == (pc # "idle") ~> (pc = "idle")

C15_Witness ==
    /\ Returned
    /\ op = "add_knowledge"
    /\ safes \ moves_made # {}
====
